---- MODULE Spec2Model ----
(***************************************************************************)
(* A model of pdf-whisper-connect: the usePDFProcessor hook                *)
(* (extractPDFOutline, analyzeDocumentsForPersona and the relevance        *)
(* scorer), the Index page that calls it and the PDFUploader component.    *)
(*                                                                         *)
(* Strings are TLA+ strings; a character is a string of length 1, read     *)
(* with SubSeq.  Glyph heights are kept in tenths (144 is 14.4), scores as *)
(* exact fractions num/den, so floating-point rounding is not modelled.    *)
(***************************************************************************)
EXTENDS Integers, Sequences, FiniteSets, TLC

(***************************************************************************)
(* Bounds of the model                                                     *)
(***************************************************************************)
\* text spans the decoder returns for one document, over all of its pages
MaxSpans == 4
\* pages a decoded document reports at most: two spans to a page
MaxPages == MaxSpans \div 2
\* files given to analyzeDocumentsForPersona
MaxDocs == 2
\* pages of all the documents of one persona analysis together
MaxTotalPages == 3
\* invocations in flight at once
MaxInFlight == 2
\* words of a text given to the relevance scorer
MaxTextWords == 3
\* calls of the relevance scorer with the same arguments
MaxScoreCalls == 2
\* paragraphs of the longest page a document has
MaxParagraphs == 8
\* job keywords appended to a text, one after the other
MaxAppends == 1

(***************************************************************************)
(* JavaScript string primitives                                            *)
(***************************************************************************)
CharAt(s, i) == SubSeq(s, i, i)

UpperCase == <<"A", "B", "C", "D", "E", "F", "G", "H", "I", "J", "K", "L", "M",
               "N", "O", "P", "Q", "R", "S", "T", "U", "V", "W", "X", "Y", "Z">>

LowerCase == <<"a", "b", "c", "d", "e", "f", "g", "h", "i", "j", "k", "l", "m",
               "n", "o", "p", "q", "r", "s", "t", "u", "v", "w", "x", "y", "z">>

Digits == {"0", "1", "2", "3", "4", "5", "6", "7", "8", "9"}

\* [A-Z]
UpperLetters == { UpperCase[i] : i \in 1..26 }

\* \w of a JavaScript regular expression
WordChars == UpperLetters \cup { LowerCase[i] : i \in 1..26 } \cup Digits \cup {"_"}

\* \s of a JavaScript regular expression, and the characters trim() removes
WhiteSpace == {" ", "\t", "\n", "\r", "\f"}

LowerOf == [c \in UpperLetters |-> LowerCase[CHOOSE i \in 1..26 : UpperCase[i] = c]]

IsUpper(c) == c \in UpperLetters

IsSpace(c) == c \in WhiteSpace

IsWordChar(c) == c \in WordChars

LowerChar(c) == IF c \in UpperLetters THEN LowerOf[c] ELSE c

\* (by halves, so that the depth of the recursion is logarithmic)
RECURSIVE ToLowerCase(_)
ToLowerCase(s) ==
    IF Len(s) = 0 THEN ""
    ELSE IF Len(s) = 1 THEN LowerChar(s)
    ELSE ToLowerCase(SubSeq(s, 1, Len(s) \div 2))
            \o ToLowerCase(SubSeq(s, Len(s) \div 2 + 1, Len(s)))

\* the first position at or after i of s that holds no white space
RECURSIVE FirstInk(_, _)
FirstInk(s, i) ==
    IF i > Len(s) \/ ~IsSpace(CharAt(s, i)) THEN i ELSE FirstInk(s, i + 1)

\* the last position at or before i of s that holds no white space
RECURSIVE LastInk(_, _)
LastInk(s, i) ==
    IF i < 1 \/ ~IsSpace(CharAt(s, i)) THEN i ELSE LastInk(s, i - 1)

\* String.prototype.trim
Trim(s) == SubSeq(s, FirstInk(s, 1), LastInk(s, Len(s)))

\* the elements of a set of integers, ascending
RECURSIVE InOrder(_)
InOrder(S) ==
    IF S = {} THEN <<>>
    ELSE LET m == CHOOSE x \in S : \A y \in S : x =< y
         IN  <<m>> \o InOrder(S \ {m})

\* sub occurs in s at position i (1-based)
OccursAt(s, sub, i) ==
    /\ i >= 1
    /\ i + Len(sub) - 1 =< Len(s)
    /\ SubSeq(s, i, i + Len(sub) - 1) = sub

Includes(s, sub) == \E i \in 1..(Len(s) + 1) : OccursAt(s, sub, i)

\* String.prototype.replace with a string pattern: the first occurrence only
ReplaceFirst(s, pat, by) ==
    IF Includes(s, pat)
    THEN LET i == CHOOSE k \in 1..(Len(s) + 1) :
                      /\ OccursAt(s, pat, k)
                      /\ \A j \in 1..(k - 1) : ~OccursAt(s, pat, j)
         IN  SubSeq(s, 1, i - 1) \o by \o SubSeq(s, i + Len(pat), Len(s))
    ELSE s

\* String.prototype.slice(from, to) with 0-based, in-range arguments
Slice(s, from, to) == SubSeq(s, from + 1, to)

Min(a, b) == IF a < b THEN a ELSE b
Max(a, b) == IF a > b THEN a ELSE b

RECURSIVE Flatten(_)
Flatten(seqs) ==
    IF seqs = <<>> THEN <<>> ELSE Head(seqs) \o Flatten(Tail(seqs))


(***************************************************************************)
(* State                                                                   *)
(***************************************************************************)
VARIABLES
    \* usePDFProcessor
    isProcessing,   \* useState(false), PDFProcessor.tsx:42
    \* one invocation of extractPDFOutline
    outlinePc,      \* the await the invocation is suspended at
    file,           \* the File argument (its name)
    numPages,       \* pdf.numPages
    pageNum,        \* the loop variable
    title,          \* let title
    outline,        \* const outline: OutlineItem[]
    pages,          \* what getTextContent returned, page by page
    returned,       \* <<value>> once the promise is fulfilled, else <<>>
    thrown,         \* <<error>> once the promise is rejected, else <<>>
    caught,         \* <<error>> once the outer catch block has run, else <<>>
    \* one invocation of analyzeDocumentsForPersona
    personaPc,      \* "idle", "pending" (awaiting Promise.all) or "done"
    files,          \* the File[] argument (the names)
    docStatus,      \* per document: the await its async function is suspended at
    pageStatus,     \* per document, per page: the promise its task waits for
    pageStrs,       \* per document, per page: the strs getTextContent returned
    pageResults,    \* per document: the slots of Promise.all(pagePromises)
    documentResults,\* the slots of Promise.all(documentPromises)
    completionOrder,\* the <<document, page>> of the page tasks, as they completed
    personaReturned,\* <<value>> once the invocation has returned a value
    personaThrown,  \* <<error>> once the invocation has thrown
    personaCaught,  \* <<error>> once the catch block has run
    \* the page
    activeTab,      \* useState('outline'), PDFProcessor.tsx:382
    outlineFiles,   \* useState([]), line 383
    personaFiles,   \* useState([]), line 384
    outlineResults, \* the files whose outlines are shown (line 385)
    personaResults, \* the files whose analysis is shown (line 386)
    selectedFiles,  \* per uploader: useState([]), PDFUploader.tsx:15
    inFlight,       \* the invocations started and not ended, with their handler
    \* calls of calculateEnhancedRelevanceScore with one triple of arguments
    scoreArgs,      \* [text, persona, jobToBeDone]
    scores          \* the values returned so far, in call order

outlineVars ==
    <<outlinePc, file, numPages, pageNum, title, outline, pages, returned, thrown,
      caught>>

personaVars ==
    <<personaPc, files, docStatus, pageStatus, pageStrs, pageResults, documentResults,
      completionOrder, personaReturned, personaThrown, personaCaught>>

scoreVars == <<scoreArgs, scores>>

uiVars ==
    <<activeTab, outlineFiles, personaFiles, outlineResults, personaResults,
      selectedFiles, inFlight>>

vars == <<isProcessing, outlineVars, personaVars, scoreVars, uiVars>>

\* what an invocation of extractPDFOutline, an invocation of
\* analyzeDocumentsForPersona and a call of the scorer leave alone
outlineFrame == <<personaVars, scoreVars, uiVars>>

personaFrame == <<outlineVars, scoreVars, uiVars>>

scoreFrame == <<isProcessing, outlineVars, personaVars, uiVars>>

uiFrame == <<outlineVars, personaVars, scoreVars>>

(***************************************************************************)
(* The PDF decoder (pdfjs-dist), an external collaborator: what it can     *)
(* answer                                                                  *)
(***************************************************************************)
FileNames == {"report.pdf"}

\* the error a rejected decoder promise carries: the call that failed and the
\* page it was made for (0 for a call on the file or the document)
DecoderError(call, page) == [message |-> "decoder: " \o call, page |-> page]

\* info.info.Title: a title, or nothing usable (absent or empty)
MetadataTitles == {"", "Annual Report"}

\* text items as getTextContent reports them: str and height (in tenths)
TextItemChoices ==
    { [str |-> " Introduction ",     height |-> 180],
      [str |-> "Scope",              height |-> 144],
      [str |-> "Introduction",       height |-> 136],
      [str |-> "Notes",              height |-> 120],
      [str |-> "This is body text.", height |-> 100],
      [str |-> "Terms",              height |-> 90] }

\* the item arrays of at most n items
ItemArrays(n) == UNION { [1..k -> TextItemChoices] : k \in 0..n }

SpansSoFar == Len(Flatten(pages))

(***************************************************************************)
(* Heading classification, PDFProcessor.tsx:68-102                         *)
(***************************************************************************)
\* Math.round of a height given in tenths
MathRound(h) == (h + 5) \div 10

\* textContent.items.filter(item => 'str' in item && item.str.trim().length > 0)
TextItems(items) ==
    SelectSeq(items, LAMBDA item : Len(Trim(item.str)) > 0)

\* the items the forEach of lines 76-84 puts into the map:
\* if (item.height && item.str)
Grouped(textItems) ==
    SelectSeq(textItems, LAMBDA item : item.height # 0 /\ item.str # "")

\* the value of one key of the map: item.str.trim() of its items, in item order
TrimAll(items) == [i \in 1..Len(items) |-> Trim(items[i].str)]

\* the fontSizes map after the forEach of lines 76-84: rounded height |-> the
\* trimmed strings of that height, in item order
FontSizes(textItems) ==
    [fontSize \in { MathRound(textItems[i].height) :
                      i \in { k \in 1..Len(textItems) :
                                textItems[k].height # 0 /\ textItems[k].str # "" } } |->
        TrimAll(SelectSeq(Grouped(textItems),
                          LAMBDA item : MathRound(item.height) = fontSize))]

\* a slip in the comparator: (a, b) => a - b, smallest first
RECURSIVE SortAscending(_)
SortAscending(S) ==
    IF S = {} THEN <<>>
    ELSE LET m == CHOOSE x \in S : \A y \in S : x =< y
         IN  <<m>> \o SortAscending(S \ {m})

\* Array.from(keys).sort((a, b) => b - a)
RECURSIVE SortDescending(_)
SortDescending(S) ==
    IF S = {} THEN <<>>
    ELSE LET m == CHOOSE x \in S : \A y \in S : y =< x
         IN  <<m>> \o SortDescending(S \ {m})

SortedSizes(fontSizes) == SortDescending(DOMAIN fontSizes)

\* the test of line 93 without its !text.includes('.')
IsHeadingTextWithPeriods(text) ==
    /\ Len(text) > 3
    /\ Len(text) < 100
    /\ IsUpper(CharAt(text, 1))

\* the test of line 93
IsHeadingText(text) ==
    /\ Len(text) > 3
    /\ Len(text) < 100
    /\ ~Includes(text, ".")
    /\ IsUpper(CharAt(text, 1))

\* index === 0 ? 'H1' : index === 1 ? 'H2' : 'H3' (index is 0-based)
LevelOf(index) == IF index = 0 THEN "H1" ELSE IF index = 1 THEN "H2" ELSE "H3"

\* how many of the largest clusters are looked at: sortedSizes.slice(0, 4)
TopClusters == 4

\* the items one page pushes to outline (lines 69-102)
PageHeadings(items, page) ==
    LET fontSizes == FontSizes(TextItems(items))
        sorted    == SortedSizes(fontSizes)
        sizes     == SubSeq(sorted, 1, Min(TopClusters, Len(sorted)))
        OfCluster(index) ==
            LET kept == SelectSeq(fontSizes[sizes[index + 1]], IsHeadingText)
            IN  [i \in 1..Len(kept) |->
                    [level |-> LevelOf(index), text |-> kept[i], page |-> page]]
    IN  Flatten([k \in 1..Len(sizes) |-> OfCluster(k - 1)])

(***************************************************************************)
(* Deduplication and sort, PDFProcessor.tsx:105-108                        *)
(***************************************************************************)
\* arr.findIndex(other => other.text === item.text && other.page === item.page)
FindIndex(arr, item) ==
    CHOOSE i \in 1..Len(arr) :
        /\ arr[i].text = item.text /\ arr[i].page = item.page
        /\ \A j \in 1..(i - 1) : ~(arr[j].text = item.text /\ arr[j].page = item.page)

\* a deduplication that keeps the last occurrence instead of the first
RemoveDuplicatesKeepLast(arr) ==
    LET Same(a, b) == a.text = b.text /\ a.page = b.page
        F[index \in 0..Len(arr)] ==
            IF index = 0 THEN <<>>
            ELSE IF \A j \in (index + 1)..Len(arr) : ~Same(arr[j], arr[index])
                 THEN Append(F[index - 1], arr[index])
                 ELSE F[index - 1]
    IN  F[Len(arr)]

\* outline.filter((item, index, arr) => arr.findIndex(...) === index)
RemoveDuplicates(arr) ==
    LET F[index \in 0..Len(arr)] ==
            IF index = 0 THEN <<>>
            ELSE IF FindIndex(arr, arr[index]) = index
                 THEN Append(F[index - 1], arr[index])
                 ELSE F[index - 1]
    IN  F[Len(arr)]

\* a sort that is not stable: an element goes before the elements equal to it
RECURSIVE SortByPageUnstable(_)
SortByPageUnstable(arr) ==
    IF arr = <<>> THEN <<>>
    ELSE LET rest == SortByPageUnstable(SubSeq(arr, 1, Len(arr) - 1))
             x    == arr[Len(arr)]
             n    == Cardinality({ i \in 1..Len(rest) : rest[i].page < x.page })
         IN  SubSeq(rest, 1, n) \o <<x>> \o SubSeq(rest, n + 1, Len(rest))

\* Array.prototype.sort is stable: insertion after the last element that is not greater
RECURSIVE SortByPage(_)
SortByPage(arr) ==
    IF arr = <<>> THEN <<>>
    ELSE LET rest == SortByPage(SubSeq(arr, 1, Len(arr) - 1))
             x    == arr[Len(arr)]
             n    == Cardinality({ i \in 1..Len(rest) : rest[i].page =< x.page })
         IN  SubSeq(rest, 1, n) \o <<x>> \o SubSeq(rest, n + 1, Len(rest))

UniqueOutline(arr) == SortByPage(RemoveDuplicates(arr))

(***************************************************************************)
(* Keyword extraction, PDFProcessor.tsx:294-302                            *)
(***************************************************************************)
\* the positions of s where a maximal run of characters outside class starts
PieceStarts(s, class) ==
    { i \in 1..Len(s) : CharAt(s, i) \notin class /\ (i = 1 \/ CharAt(s, i - 1) \in class) }

\* the positions of s where such a run ends
PieceEnds(s, class) ==
    { i \in 1..Len(s) :
         CharAt(s, i) \notin class /\ (i = Len(s) \/ CharAt(s, i + 1) \in class) }

Pieces(s, from, to) == [k \in 1..Len(from) |-> SubSeq(s, from[k], to[k])]

\* String.prototype.split(/[class]+/): the maximal runs of characters outside
\* the class; a leading or trailing run of the class gives an empty first or
\* last piece, and the empty string gives one empty piece
SplitClass(s, class) ==
    IF Len(s) = 0 THEN <<"">>
    ELSE (IF CharAt(s, 1) \in class THEN <<"">> ELSE <<>>)
            \o Pieces(s, InOrder(PieceStarts(s, class)), InOrder(PieceEnds(s, class)))
            \o (IF CharAt(s, Len(s)) \in class THEN <<"">> ELSE <<>>)

\* split(/\s+/)
SplitWhitespace(s) == SplitClass(s, WhiteSpace)

\* split(/[.!?]+/)
SplitSentences(s) == SplitClass(s, {".", "!", "?"})

stopWords ==
    {"the", "a", "an", "and", "or", "but", "in", "on", "at", "to", "for", "of",
     "with", "by", "is", "are", "was", "were", "be", "been", "being", "have",
     "has", "had", "do", "does", "did", "will", "would", "could", "should",
     "may", "might", "must", "can", "shall"}

\* word.replace(/[^\w]/g, '')
RECURSIVE StripNonWord(_)
StripNonWord(word) ==
    IF Len(word) = 0 THEN ""
    ELSE (IF IsWordChar(Head(word)) THEN Head(word) ELSE "")
            \o StripNonWord(Tail(word))

\* map(word => word.replace(/[^\w]/g, ''))
StripAll(words) == [i \in 1..Len(words) |-> StripNonWord(words[i])]

extractKeywords(text) ==
    SelectSeq(StripAll(SelectSeq(SplitWhitespace(text),
                                 LAMBDA word : Len(word) > 2 /\ word \notin stopWords)),
              LAMBDA word : Len(word) > 2)

(***************************************************************************)
(* Relevance scoring, PDFProcessor.tsx:246-324.  A score is the fraction   *)
(* num/den with den = 1000 * totalWords; a context bonus is in thousandths *)
(***************************************************************************)
\* \b at the gap before position i (1-based) of text
WordBoundary(text, i) ==
    LET before == i > 1 /\ IsWordChar(CharAt(text, i - 1))
        after  == i =< Len(text) /\ IsWordChar(CharAt(text, i))
    IN  before # after

\* /\bkeyword\b/ matches at position i (1-based) of text
MatchesAt(text, keyword, i) ==
    /\ i + Len(keyword) - 1 =< Len(text)
    /\ SubSeq(text, i, i + Len(keyword) - 1) = keyword
    /\ WordBoundary(text, i)
    /\ WordBoundary(text, i + Len(keyword))

\* regex.exec(text) with the regex's lastIndex (0-based): the match.index of
\* the first match at or after lastIndex, or -1 for null
RegExpExec(text, keyword, lastIndex) ==
    LET at == { i \in (lastIndex + 1)..Len(text) : MatchesAt(text, keyword, i) }
    IN  IF at = {} THEN -1
        ELSE (CHOOSE i \in at : \A j \in at : i =< j) - 1

\* the match.index of every match, in order: the while loop of line 310,
\* from the lastIndex the regex has
RECURSIVE ExecAll(_, _, _)
ExecAll(text, keyword, lastIndex) ==
    LET index == RegExpExec(text, keyword, lastIndex)
    IN  IF index < 0 THEN <<>>
        ELSE <<index>> \o ExecAll(text, keyword, index + Len(keyword))

\* the matches of new RegExp(`\\b${keyword}\\b`, 'gi'), a regex made for the
\* call (lastIndex 0); the i flag folds the case of both sides
MatchIndices(text, keyword) == ExecAll(ToLowerCase(text), ToLowerCase(keyword), 0)

\* the regex without its g flag: match returns the first match only
MatchCountWithoutGlobalFlag(text, keyword) == Min(1, Len(MatchIndices(text, keyword)))

\* (lowerText.match(regex) || []).length
MatchCount(text, keyword) == Len(MatchIndices(text, keyword))

\* the cap of line 323, in thousandths
ContextBonusCap == 300

\* the increment of line 318, in thousandths
ContextBonusStep == 50

\* the half-width of the window of lines 311-312, in characters
ContextWindow == 100

\* text.slice(contextStart, contextEnd).toLowerCase() of lines 311-313
Context(text, keyword, index) ==
    ToLowerCase(Slice(text, Max(0, index - ContextWindow),
                      Min(Len(text), index + Len(keyword) + ContextWindow)))

\* the entries of allKeywords that add to the bonus (lines 316-320)
OtherKeywords(context, keyword, allKeywords) ==
    Cardinality({ k \in 1..Len(allKeywords) :
                    /\ allKeywords[k] # keyword
                    /\ Includes(context, allKeywords[k]) })

\* the bonus after the while loop of line 310 has seen the matches at indices
RECURSIVE BonusOf(_, _, _, _)
BonusOf(text, keyword, allKeywords, indices) ==
    IF indices = <<>> THEN 0
    ELSE ContextBonusStep
            * OtherKeywords(Context(text, keyword, Head(indices)), keyword, allKeywords)
         + BonusOf(text, keyword, allKeywords, Tail(indices))

calculateContextBonus(text, keyword, allKeywords) ==
    Min(BonusOf(text, keyword, allKeywords, MatchIndices(text, keyword)), ContextBonusCap)

professionalTerms ==
    <<"analysis", "research", "study", "method", "approach", "results",
      "conclusion", "data", "findings">>

\* what one persona keyword adds to score (lines 259-267), times
\* 1000 * totalWords
PersonaTerm(lowerText, keyword, allKeywords, totalWords) ==
    IF Len(keyword) > 2
    THEN MatchCount(lowerText, keyword) * 800
           + calculateContextBonus(lowerText, keyword, allKeywords) * totalWords
    ELSE 0

\* what one job keyword adds to score (lines 272-280), times 1000 * totalWords
JobTerm(lowerText, keyword, allKeywords, totalWords) ==
    IF Len(keyword) > 2
    THEN MatchCount(lowerText, keyword) * 1200
           + ((calculateContextBonus(lowerText, keyword, allKeywords) * 12) \div 10)
                * totalWords
    ELSE 0

\* personaKeywords.forEach(...)
RECURSIVE PersonaSum(_, _, _, _)
PersonaSum(lowerText, keywords, allKeywords, totalWords) ==
    IF keywords = <<>> THEN 0
    ELSE PersonaTerm(lowerText, Head(keywords), allKeywords, totalWords)
         + PersonaSum(lowerText, Tail(keywords), allKeywords, totalWords)

\* jobKeywords.forEach(...)
RECURSIVE JobSum(_, _, _, _)
JobSum(lowerText, keywords, allKeywords, totalWords) ==
    IF keywords = <<>> THEN 0
    ELSE JobTerm(lowerText, Head(keywords), allKeywords, totalWords)
         + JobSum(lowerText, Tail(keywords), allKeywords, totalWords)

\* professionalTerms.forEach(...), lines 285-289, times 1000
ProfessionalBonus(lowerText) ==
    100 * Cardinality({ k \in 1..Len(professionalTerms) :
                          Includes(lowerText, professionalTerms[k]) })

\* score after line 289, times 1000 * totalWords
ScoreSum(lowerText, personaKeywords, jobKeywords, totalWords) ==
    PersonaSum(lowerText, personaKeywords, personaKeywords \o jobKeywords, totalWords)
      + JobSum(lowerText, jobKeywords, personaKeywords \o jobKeywords, totalWords)
      + ProfessionalBonus(lowerText) * totalWords

\* lowerText.split(/\s+/).length
TotalWords(text) == Len(SplitWhitespace(ToLowerCase(text)))

\* the sum of lines 251-289, times 1000 * totalWords, before Math.min(score, 1)
RawScore(text, persona, jobToBeDone) ==
    ScoreSum(ToLowerCase(text), extractKeywords(ToLowerCase(persona)),
             extractKeywords(ToLowerCase(jobToBeDone)), TotalWords(text))

\* a return without the clamp: return score
UnclampedScore(raw, den) == [num |-> raw, den |-> den]

\* return Math.min(score, 1), on a score raw/den
ClampScore(raw, den) == [num |-> Min(raw, den), den |-> den]

calculateEnhancedRelevanceScore(text, persona, jobToBeDone) ==
    IF TotalWords(text) = 0 THEN [num |-> 0, den |-> 1]
    ELSE ClampScore(RawScore(text, persona, jobToBeDone), 1000 * TotalWords(text))

(***************************************************************************)
(* Section segmentation, PDFProcessor.tsx:326-370                          *)
(***************************************************************************)
\* Array.prototype.join(sep)
RECURSIVE Join(_, _)
Join(strs, sep) ==
    IF Len(strs) = 0 THEN ""
    ELSE IF Len(strs) = 1 THEN strs[1]
    ELSE strs[1] \o sep \o Join(Tail(strs), sep)

\* the length of the run of white space that starts at position i of s
SpaceRun(s, i) ==
    LET stops == { j \in i..Len(s) : ~IsSpace(CharAt(s, j)) }
    IN  IF stops = {} THEN Len(s) - i + 1
        ELSE (CHOOSE j \in stops : \A k \in stops : j =< k) - i

\* the length of the match of /\n\s*\n|\.\s{3,}/ at position i of s, 0 for none
ParagraphBreakAt(s, i) ==
    LET run == SpaceRun(s, i + 1)
        newlines == { j \in (i + 1)..(i + run) : CharAt(s, j) = "\n" }
    IN  IF CharAt(s, i) = "\n" /\ newlines # {}
        THEN (CHOOSE j \in newlines : \A k \in newlines : k =< j) - i + 1
        ELSE IF CharAt(s, i) = "." /\ run >= 3 THEN 1 + run
        ELSE 0

\* text.split(/\n\s*\n|\.\s{3,}/) from position from: one step for each match
RECURSIVE SplitParagraphsFrom(_, _)
SplitParagraphsFrom(s, from) ==
    LET breaks == { i \in from..Len(s) :
                      CharAt(s, i) \in {"\n", "."} /\ ParagraphBreakAt(s, i) > 0 }
    IN  IF breaks = {} THEN <<SubSeq(s, from, Len(s))>>
        ELSE LET i == CHOOSE b \in breaks : \A c \in breaks : b =< c
             IN  <<SubSeq(s, from, i - 1)>>
                    \o SplitParagraphsFrom(s, i + ParagraphBreakAt(s, i))

SplitParagraphs(s) == SplitParagraphsFrom(s, 1)

\* the section of one paragraph (lines 334-349); index is 0-based
ParagraphSection(paragraph, index) ==
    LET cleanParagraph == Trim(paragraph)
        sentences      == SplitSentences(cleanParagraph)
        firstSentence  == Trim(sentences[1])
    IN  IF /\ Len(firstSentence) > 0
           /\ Len(firstSentence) < 80
           /\ Len(firstSentence) > 10
           /\ Len(sentences) > 1
        THEN [title |-> firstSentence, text |-> Trim(Join(Tail(sentences), ". "))]
        ELSE [title |-> "Paragraph " \o ToString(index + 1), text |-> cleanParagraph]

\* the chunks of the fallback (lines 358-366), from the 0-based sentence i
RECURSIVE SentenceChunks(_, _, _)
SentenceChunks(sentences, chunkSize, i) ==
    IF i >= Len(sentences) THEN <<>>
    ELSE <<[title |-> "Section " \o ToString((i \div chunkSize) + 1),
            text  |-> Trim(Join(SubSeq(sentences, i + 1,
                                       Min(i + chunkSize, Len(sentences))), ". ")) \o "."]>>
            \o SentenceChunks(sentences, chunkSize, i + chunkSize)

extractMeaningSections(text) ==
    LET paragraphs == SelectSeq(SplitParagraphs(text), LAMBDA p : Len(Trim(p)) > 50)
        sections   == [i \in 1..Len(paragraphs) |-> ParagraphSection(paragraphs[i], i - 1)]
        sentences  == SelectSeq(SplitSentences(text), LAMBDA x : Len(Trim(x)) > 30)
        chunkSize  == Max(3, Min(8, Len(sentences) \div 4))
    IN  IF Len(sections) = 0 THEN SentenceChunks(sentences, chunkSize, 0) ELSE sections

(***************************************************************************)
(* The work on one page in analyzeDocumentsForPersona, PDFProcessor.tsx    *)
(* 147-197                                                                 *)
(***************************************************************************)
\* the least length of a page text that is analysed (line 155)
MinPageTextLength == 50

\* sectionScore > 0.2 and item.score > 0.3, in tenths
SectionThreshold == 2

SentenceThreshold == 3

\* the least length of a sentence that is scored, exclusive (line 177)
MinSentenceLength == 30

\* slice(0, 2) of line 185
MaxSentences == 2

\* score > tenths / 10
ScoreAbove(score, tenths) == score.num * 10 > tenths * score.den

\* a.score > b.score
ScoreGreater(a, b) == a.num * b.den > b.num * a.den

\* Math.round(sectionScore * 10)
ImportanceRank(score) == (20 * score.num + score.den) \div (2 * score.den)

\* items.filter(item => 'str' in item).map(item => item.str).join(' ').trim()
PageText(strs) == Trim(Join(strs, " "))

\* a sort by descending score that does not keep the order of equal scores
RECURSIVE SortByScoreUnstable(_)
SortByScoreUnstable(arr) ==
    IF arr = <<>> THEN <<>>
    ELSE LET rest == SortByScoreUnstable(SubSeq(arr, 1, Len(arr) - 1))
             x    == arr[Len(arr)]
             n    == Cardinality({ i \in 1..Len(rest) : ScoreGreater(rest[i].score, x.score) })
         IN  SubSeq(rest, 1, n) \o <<x>> \o SubSeq(rest, n + 1, Len(rest))

\* sort((a, b) => b.score - a.score), a stable sort
RECURSIVE SortByScore(_)
SortByScore(arr) ==
    IF arr = <<>> THEN <<>>
    ELSE LET rest == SortByScore(SubSeq(arr, 1, Len(arr) - 1))
             x    == arr[Len(arr)]
             n    == Cardinality({ i \in 1..Len(rest) : ~ScoreGreater(x.score, rest[i].score) })
         IN  SubSeq(rest, 1, n) \o <<x>> \o SubSeq(rest, n + 1, Len(rest))

\* Array.prototype.slice(0, n)
Take(arr, n) == SubSeq(arr, 1, Min(n, Len(arr)))

\* map(sentence => ({ text: sentence.trim(), score: ... })), lines 179-182
ScoreSentences(sentences, persona, jobToBeDone) ==
    [i \in 1..Len(sentences) |->
        [text  |-> Trim(sentences[i]),
         score |-> calculateEnhancedRelevanceScore(sentences[i], persona, jobToBeDone)]]

\* relevantSentences of lines 177-185
RelevantSentences(sectionText, persona, jobToBeDone) ==
    Take(SortByScore(SelectSeq(
             ScoreSentences(SelectSeq(SplitSentences(sectionText),
                                      LAMBDA x : Len(Trim(x)) > MinSentenceLength),
                            persona, jobToBeDone),
             LAMBDA item : ScoreAbove(item.score, SentenceThreshold))),
         MaxSentences)

\* relevantSentences.map(s => s.text)
SentenceTexts(relevantSentences) == [k \in 1..Len(relevantSentences) |-> relevantSentences[k].text]

\* what lines 187-193 push for a section
Subsections(document, page, relevantSentences) ==
    IF Len(relevantSentences) > 0
    THEN <<[document    |-> document,
            refinedText |-> Join(SentenceTexts(relevantSentences), ". ") \o ".",
            pageNumber  |-> page]>>
    ELSE <<>>

\* the callback of sections.forEach (lines 165-195) for the section with the
\* 0-based index and the sectionScore: what it pushes
AnalyzeSection(document, page, section, index, sectionScore, persona, jobToBeDone) ==
    IF ScoreAbove(sectionScore, SectionThreshold)
    THEN [sections    |-> <<[document       |-> document,
                             pageNumber     |-> page,
                             sectionTitle   |-> IF section.title # "" THEN section.title
                                                ELSE "Section " \o ToString(index + 1),
                             importanceRank |-> ImportanceRank(sectionScore)]>>,
          subsections |-> Subsections(document, page,
                                      RelevantSentences(section.text, persona, jobToBeDone))]
    ELSE [sections |-> <<>>, subsections |-> <<>>]

\* what the callback pushes, section by section
AnalyzeSections(document, page, sections, persona, jobToBeDone) ==
    [i \in 1..Len(sections) |->
        AnalyzeSection(document, page, sections[i], i - 1,
                       calculateEnhancedRelevanceScore(sections[i].text, persona,
                                                       jobToBeDone),
                       persona, jobToBeDone)]

\* the arrays filled by the push(...) calls of a forEach, in the order of the
\* calls (lines 165-195, 203-206 and 212-215)
Pushed(results) ==
    [sections    |-> Flatten([i \in 1..Len(results) |-> results[i].sections]),
     subsections |-> Flatten([i \in 1..Len(results) |-> results[i].subsections])]

\* lines 155-197 for the pageText of a page
AnalyzePageText(document, page, pageText, persona, jobToBeDone) ==
    IF Len(pageText) < MinPageTextLength
    THEN [sections |-> <<>>, subsections |-> <<>>]
    ELSE Pushed(AnalyzeSections(document, page, extractMeaningSections(pageText),
                                persona, jobToBeDone))

\* what the then-callback of one page returns (lines 147-197)
AnalyzePage(document, page, strs, persona, jobToBeDone) ==
    AnalyzePageText(document, page, PageText(strs), persona, jobToBeDone)

(***************************************************************************)
(* extractPDFOutline, PDFProcessor.tsx:44-120                              *)
(***************************************************************************)
\* Math.min(pdf.numPages, 50)
OutlinePageCap == 50

\* a catch block that throws the error it caught: throw error
Rethrow(error) == error

\* what the catch block throws for the error it caught (line 116)
OutlineCatch(error) ==
    [message |-> "Failed to process PDF. Please ensure it's a valid PDF file.", page |-> 0]

OutlineIdle ==
    /\ outlinePc = "idle"
    /\ file = ""
    /\ numPages = 0
    /\ pageNum = 0
    /\ title = ""
    /\ outline = <<>>
    /\ pages = <<>>
    /\ returned = <<>>
    /\ thrown = <<>>
    /\ caught = <<>>

\* the catch block without the finally block: isProcessing is left as it is
OutlineFailWithoutFinally(error) ==
    /\ caught' = <<error>>
    /\ thrown' = <<OutlineCatch(error)>>
    /\ isProcessing' = isProcessing
    /\ outlinePc' = "done"

\* catch (error) { throw new Error(...) } finally { setIsProcessing(false) }
OutlineFail(error) ==
    /\ caught' = <<error>>
    /\ thrown' = <<OutlineCatch(error)>>
    /\ isProcessing' = FALSE
    /\ outlinePc' = "done"

\* the call up to its first await: setIsProcessing(true); file.arrayBuffer()
ExtractPDFOutline ==
    /\ outlinePc = "idle"
    /\ \E f \in FileNames : file' = f
    /\ isProcessing' = TRUE
    /\ outlinePc' = "arrayBuffer"
    /\ UNCHANGED <<numPages, pageNum, title, outline, pages, returned, thrown, caught>>
    /\ UNCHANGED outlineFrame

\* await file.arrayBuffer() is fulfilled; getDocument is called
ArrayBufferResolves ==
    /\ outlinePc = "arrayBuffer"
    /\ outlinePc' = "getDocument"
    /\ UNCHANGED <<isProcessing, file, numPages, pageNum, title, outline, pages,
                   returned, thrown, caught>>
    /\ UNCHANGED outlineFrame

ArrayBufferRejects ==
    /\ outlinePc = "arrayBuffer"
    /\ OutlineFail(DecoderError("arrayBuffer", 0))
    /\ UNCHANGED <<file, numPages, pageNum, title, outline, pages, returned>>
    /\ UNCHANGED outlineFrame

\* await getDocument(...).promise is fulfilled; title defaults to the file name
GetDocumentResolves ==
    /\ outlinePc = "getDocument"
    /\ \E n \in 0..MaxPages : numPages' = n
    /\ title' = ReplaceFirst(file, ".pdf", "")
    /\ outline' = <<>>
    /\ outlinePc' = "getMetadata"
    /\ UNCHANGED <<isProcessing, file, pageNum, pages, returned, thrown, caught>>
    /\ UNCHANGED outlineFrame

GetDocumentRejects ==
    /\ outlinePc = "getDocument"
    /\ OutlineFail(DecoderError("getDocument", 0))
    /\ UNCHANGED <<file, numPages, pageNum, title, outline, pages, returned>>
    /\ UNCHANGED outlineFrame

\* the for statement's test and what follows it: getPage(pageNum), or the
\* return of lines 105-113 and the finally block
OutlineLoop(n, t, o) ==
    IF n =< Min(numPages, OutlinePageCap)
    THEN /\ pageNum' = n
         /\ outlinePc' = "getPage"
         /\ UNCHANGED <<isProcessing, returned>>
    ELSE /\ pageNum' = n
         /\ returned' = <<[title |-> t, outline |-> UniqueOutline(o)]>>
         /\ isProcessing' = FALSE
         /\ outlinePc' = "done"

\* await pdf.getMetadata() is fulfilled
GetMetadataResolves ==
    /\ outlinePc = "getMetadata"
    /\ \E t \in MetadataTitles :
          /\ title' = (IF t # "" THEN t ELSE title)
          /\ OutlineLoop(1, title', outline)
    /\ UNCHANGED <<file, numPages, outline, pages, thrown, caught>>
    /\ UNCHANGED outlineFrame

\* await pdf.getMetadata() is rejected: the inner catch only warns
GetMetadataRejects ==
    /\ outlinePc = "getMetadata"
    /\ OutlineLoop(1, title, outline)
    /\ UNCHANGED <<file, numPages, title, outline, pages, thrown, caught>>
    /\ UNCHANGED outlineFrame

GetPageResolves ==
    /\ outlinePc = "getPage"
    /\ outlinePc' = "getTextContent"
    /\ UNCHANGED <<isProcessing, file, numPages, pageNum, title, outline, pages,
                   returned, thrown, caught>>
    /\ UNCHANGED outlineFrame

GetPageRejects ==
    /\ outlinePc = "getPage"
    /\ OutlineFail(DecoderError("getPage", pageNum))
    /\ UNCHANGED <<file, numPages, pageNum, title, outline, pages, returned>>
    /\ UNCHANGED outlineFrame

\* await page.getTextContent() is fulfilled: the page's headings are pushed
GetTextContentResolves ==
    /\ outlinePc = "getTextContent"
    /\ \E items \in ItemArrays(MaxSpans - SpansSoFar) :
          /\ pages' = Append(pages, items)
          /\ outline' = outline \o PageHeadings(items, pageNum)
          /\ OutlineLoop(pageNum + 1, title, outline')
    /\ UNCHANGED <<file, numPages, title, thrown, caught>>
    /\ UNCHANGED outlineFrame

GetTextContentRejects ==
    /\ outlinePc = "getTextContent"
    /\ OutlineFail(DecoderError("getTextContent", pageNum))
    /\ UNCHANGED <<file, numPages, pageNum, title, outline, pages, returned>>
    /\ UNCHANGED outlineFrame

OutlineNext ==
    \/ ExtractPDFOutline
    \/ ArrayBufferResolves
    \/ ArrayBufferRejects
    \/ GetDocumentResolves
    \/ GetDocumentRejects
    \/ GetMetadataResolves
    \/ GetMetadataRejects
    \/ GetPageResolves
    \/ GetPageRejects
    \/ GetTextContentResolves
    \/ GetTextContentRejects

ScoreIdle ==
    /\ scoreArgs = [text |-> "", persona |-> "", jobToBeDone |-> ""]
    /\ scores = <<>>

(***************************************************************************)
(* analyzeDocumentsForPersona, PDFProcessor.tsx:122-236                    *)
(***************************************************************************)
\* Math.min(pdf.numPages, 15)
PersonaPageCap == 15

\* extractedSections.slice(0, 15) and subSectionAnalysis.slice(0, 20)
MaxExtractedSections == 15

MaxSubSections == 20

\* the persona and the job of the analysis
AnalysisPersona == "Investment Analyst"

AnalysisJob == "Analyze revenue trends"

\* the name of the i-th file of the list
PersonaFileName(i) == "doc" \o ToString(i) \o ".pdf"

\* the paragraphs of a long page: importanceRank 3 and 7 in turn, each with
\* one sentence above the sentence threshold
Paragraph(k) ==
    IF k % 2 = 1
    THEN "The revenue of the group grew and costs fell and trends stayed strong"
    ELSE "Revenue trends grew and revenue trends stayed strong in every region"

\* the strs of a page of MaxParagraphs paragraphs: a paragraph ends with a
\* period, and two empty strs follow it, so that join(' ') puts three spaces
\* after the period
LongPage ==
    Flatten([k \in 1..MaxParagraphs |->
                IF k < MaxParagraphs THEN <<Paragraph(k) \o ".", "", "">>
                ELSE <<Paragraph(k)>>])

\* the strs of a page of one section with four sentences above the sentence
\* threshold: a sentence under 30 characters with the highest score, two
\* sentences of equal score, and a sentence that scores above these two
OverviewPage ==
    <<"Revenue trends overview.",
      "Revenue trends grew.",
      "The revenue trends of the group grew and costs fell.",
      "The revenue trends of the group fell and costs grew.",
      "Revenue trends grew and revenue trends stayed strong in every region!">>

\* the strs of the text items getTextContent may return for a page: a page
\* shorter than 50 characters, a page with no section above the threshold,
\* two pages of one section with importanceRank 10 and 6, and the long page
PersonaPageChoices ==
    { LongPage,
      OverviewPage,
      <<"Cover page">>,
      <<"Quarterly update.",
        "Nothing of note happened in the company during the whole of this long quarter.">>,
      <<"Market analysis.",
        "Our research data shows findings and results on the method of market study here.">> }

\* AnalyzePage of every page the decoder may return, computed once
PageAnalyses ==
    [strs \in PersonaPageChoices |-> AnalyzePage("", 0, strs, AnalysisPersona, AnalysisJob)]

\* AnalyzePage(document, page, strs, AnalysisPersona, AnalysisJob), read from
\* the table: document and page only label the entries (lines 170-171, 189-191)
AnalysedPage(document, page, strs) ==
    LET a == PageAnalyses[strs]
    IN  [sections    |-> [k \in 1..Len(a.sections) |->
                             [a.sections[k] EXCEPT !.document = document,
                                                   !.pageNumber = page]],
         subsections |-> [k \in 1..Len(a.subsections) |->
                             [a.subsections[k] EXCEPT !.document = document,
                                                      !.pageNumber = page]]]

\* a Promise.all that hands over its values in the order its promises are
\* fulfilled
PromiseAllInCompletionOrder(slots, index, value) ==
    LET free  == { i \in 1..Len(slots) : slots[i] = <<>> }
        first == CHOOSE i \in free : \A j \in free : i =< j
    IN  [slots EXCEPT ![first] = <<value>>]

\* Promise.all: the value of the index-th promise goes to the index-th place
PromiseAll(slots, index, value) == [slots EXCEPT ![index] = <<value>>]

\* a Promise.all that stays pending when it is given no promise
AllFulfilledUnlessEmpty(slots) ==
    slots # <<>> /\ \A i \in 1..Len(slots) : slots[i] # <<>>

\* Promise.all is fulfilled once every promise is
AllFulfilled(slots) == \A i \in 1..Len(slots) : slots[i] # <<>>

\* the values a fulfilled Promise.all hands over
Values(slots) == [i \in 1..Len(slots) |-> slots[i][1]]

\* a sort by descending importanceRank that does not keep the order of
\* equal ranks
RECURSIVE SortByRankUnstable(_)
SortByRankUnstable(arr) ==
    IF arr = <<>> THEN <<>>
    ELSE LET rest == SortByRankUnstable(SubSeq(arr, 1, Len(arr) - 1))
             x    == arr[Len(arr)]
             n    == Cardinality({ i \in 1..Len(rest) :
                                     rest[i].importanceRank > x.importanceRank })
         IN  SubSeq(rest, 1, n) \o <<x>> \o SubSeq(rest, n + 1, Len(rest))

\* extractedSections.sort((a, b) => b.importanceRank - a.importanceRank)
RECURSIVE SortByRank(_)
SortByRank(arr) ==
    IF arr = <<>> THEN <<>>
    ELSE LET rest == SortByRank(SubSeq(arr, 1, Len(arr) - 1))
             x    == arr[Len(arr)]
             n    == Cardinality({ i \in 1..Len(rest) :
                                     rest[i].importanceRank >= x.importanceRank })
         IN  SubSeq(rest, 1, n) \o <<x>> \o SubSeq(rest, n + 1, Len(rest))

\* the value returned if the slice came before the sort
PersonaAnalysisCapThenSort(documents, slots) ==
    [metadata           |-> [documents   |-> documents,
                             persona     |-> AnalysisPersona,
                             jobToBeDone |-> AnalysisJob],
     extractedSections  |-> SortByRank(Take(Pushed(Values(slots)).sections,
                                            MaxExtractedSections)),
     subSectionAnalysis |-> Take(Pushed(Values(slots)).subsections, MaxSubSections)]

\* the value returned at lines 220-229 (the timestamp is left out)
PersonaAnalysis(documents, slots) ==
    [metadata           |-> [documents   |-> documents,
                             persona     |-> AnalysisPersona,
                             jobToBeDone |-> AnalysisJob],
     extractedSections  |-> Take(SortByRank(Pushed(Values(slots)).sections),
                                 MaxExtractedSections),
     subSectionAnalysis |-> Take(Pushed(Values(slots)).subsections, MaxSubSections)]

\* what the catch block throws for the error it caught (line 232)
PersonaCatch(error) ==
    [message |-> "Failed to analyze documents for persona.", page |-> 0]

PersonaIdle ==
    /\ personaPc = "idle"
    /\ files = <<>>
    /\ docStatus = <<>>
    /\ pageStatus = <<>>
    /\ pageStrs = <<>>
    /\ pageResults = <<>>
    /\ documentResults = <<>>
    /\ completionOrder = <<>>
    /\ personaReturned = <<>>
    /\ personaThrown = <<>>
    /\ personaCaught = <<>>

\* pages whose tasks have been started
PagesSoFar == Len(Flatten(pageStatus))

\* a rejection reaches the catch block through both Promise.all:
\* catch (error) { throw new Error(...) } finally { setIsProcessing(false) }
PersonaFail(error) ==
    /\ personaPc = "pending"
    /\ personaCaught' = <<error>>
    /\ personaThrown' = <<PersonaCatch(error)>>
    /\ isProcessing' = FALSE
    /\ personaPc' = "done"
    /\ UNCHANGED <<files, docStatus, pageStatus, pageStrs, pageResults, documentResults,
                   completionOrder, personaReturned>>

\* the continuation of await Promise.all(documentPromises) once it is
\* fulfilled: lines 212-229 and the finally block
PersonaSettle(documents, slots) ==
    IF AllFulfilled(slots)
    THEN /\ personaReturned' = <<PersonaAnalysis(documents, slots)>>
         /\ isProcessing' = FALSE
         /\ personaPc' = "done"
    ELSE /\ isProcessing' = TRUE
         /\ personaPc' = "pending"
         /\ UNCHANGED personaReturned

\* the call up to await Promise.all(documentPromises): every document's
\* function runs up to its await file.arrayBuffer()
AnalyzeDocumentsForPersona ==
    /\ personaPc = "idle"
    /\ \E n \in 0..MaxDocs :
          /\ files' = [d \in 1..n |-> PersonaFileName(d)]
          /\ docStatus' = [d \in 1..n |-> "arrayBuffer"]
          /\ pageStatus' = [d \in 1..n |-> <<>>]
          /\ pageStrs' = [d \in 1..n |-> <<>>]
          /\ pageResults' = [d \in 1..n |-> <<>>]
          /\ documentResults' = [d \in 1..n |-> <<>>]
          /\ PersonaSettle(files', documentResults')
    /\ UNCHANGED <<completionOrder, personaThrown, personaCaught>>
    /\ UNCHANGED personaFrame

\* await file.arrayBuffer() of document d is fulfilled; getDocument is called
PersonaArrayBufferResolves(d) ==
    /\ personaPc = "pending"
    /\ docStatus[d] = "arrayBuffer"
    /\ docStatus' = [docStatus EXCEPT ![d] = "getDocument"]
    /\ UNCHANGED <<isProcessing, personaPc, files, pageStatus, pageStrs, pageResults,
                   documentResults, completionOrder, personaReturned, personaThrown,
                   personaCaught>>
    /\ UNCHANGED personaFrame

PersonaArrayBufferRejects(d) ==
    /\ docStatus[d] = "arrayBuffer"
    /\ PersonaFail(DecoderError("arrayBuffer", 0))
    /\ UNCHANGED personaFrame

\* the function of document d after its page results are in (lines 203-208),
\* and the continuation of the outer Promise.all if that was the last one
DocumentSettle(d, slots) ==
    IF AllFulfilled(slots)
    THEN /\ docStatus' = [docStatus EXCEPT ![d] = "fulfilled"]
         /\ documentResults' = PromiseAll(documentResults, d, Pushed(Values(slots)))
         /\ PersonaSettle(files, documentResults')
    ELSE /\ docStatus' = [docStatus EXCEPT ![d] = "pages"]
         /\ UNCHANGED <<isProcessing, personaPc, documentResults, personaReturned>>

\* await getDocument(...).promise of document d is fulfilled: getPage is
\* called for every page up to the cap, then Promise.all(pagePromises) awaited
PersonaGetDocumentResolves(d) ==
    /\ personaPc = "pending"
    /\ docStatus[d] = "getDocument"
    /\ \E n \in 0..Min(MaxPages, MaxTotalPages - PagesSoFar) :
          LET maxPages == Min(n, PersonaPageCap)
          IN  /\ pageStatus' = [pageStatus EXCEPT ![d] = [p \in 1..maxPages |-> "getPage"]]
              /\ pageStrs' = [pageStrs EXCEPT ![d] = [p \in 1..maxPages |-> <<>>]]
              /\ pageResults' = [pageResults EXCEPT ![d] = [p \in 1..maxPages |-> <<>>]]
              /\ DocumentSettle(d, pageResults'[d])
    /\ UNCHANGED <<files, completionOrder, personaThrown, personaCaught>>
    /\ UNCHANGED personaFrame

PersonaGetDocumentRejects(d) ==
    /\ docStatus[d] = "getDocument"
    /\ PersonaFail(DecoderError("getDocument", 0))
    /\ UNCHANGED personaFrame

\* pdf.getPage(p) of document d is fulfilled: the then-callback runs up to
\* its await page.getTextContent()
PersonaGetPageResolves(d, p) ==
    /\ personaPc = "pending"
    /\ docStatus[d] = "pages"
    /\ pageStatus[d][p] = "getPage"
    /\ pageStatus' = [pageStatus EXCEPT ![d][p] = "getTextContent"]
    /\ UNCHANGED <<isProcessing, personaPc, files, docStatus, pageStrs, pageResults,
                   documentResults, completionOrder, personaReturned, personaThrown,
                   personaCaught>>
    /\ UNCHANGED personaFrame

PersonaGetPageRejects(d, p) ==
    /\ docStatus[d] = "pages"
    /\ pageStatus[d][p] = "getPage"
    /\ PersonaFail(DecoderError("getPage", p))
    /\ UNCHANGED personaFrame

\* await page.getTextContent() of page p of document d is fulfilled: the
\* callback returns the page's sections, which fulfils the page's promise
PersonaGetTextContentResolves(d, p) ==
    /\ personaPc = "pending"
    /\ docStatus[d] = "pages"
    /\ pageStatus[d][p] = "getTextContent"
    /\ \E strs \in PersonaPageChoices :
          /\ pageStrs' = [pageStrs EXCEPT ![d][p] = <<strs>>]
          /\ pageResults' = [pageResults EXCEPT
                                ![d] = PromiseAll(@, p, AnalysedPage(files[d], p, strs))]
          /\ pageStatus' = [pageStatus EXCEPT ![d][p] = "fulfilled"]
          /\ completionOrder' = Append(completionOrder, <<d, p>>)
          /\ DocumentSettle(d, pageResults'[d])
    /\ UNCHANGED <<files, personaThrown, personaCaught>>
    /\ UNCHANGED personaFrame

PersonaGetTextContentRejects(d, p) ==
    /\ docStatus[d] = "pages"
    /\ pageStatus[d][p] = "getTextContent"
    /\ PersonaFail(DecoderError("getTextContent", p))
    /\ UNCHANGED personaFrame

PersonaNext ==
    \/ AnalyzeDocumentsForPersona
    \/ \E d \in 1..Len(files) : PersonaArrayBufferResolves(d)
    \/ \E d \in 1..Len(files) : PersonaArrayBufferRejects(d)
    \/ \E d \in 1..Len(files) : PersonaGetDocumentResolves(d)
    \/ \E d \in 1..Len(files) : PersonaGetDocumentRejects(d)
    \/ \E d \in 1..Len(files) : \E p \in 1..Len(pageStatus[d]) :
          PersonaGetPageResolves(d, p)
    \/ \E d \in 1..Len(files) : \E p \in 1..Len(pageStatus[d]) :
          PersonaGetPageRejects(d, p)
    \/ \E d \in 1..Len(files) : \E p \in 1..Len(pageStatus[d]) :
          PersonaGetTextContentResolves(d, p)
    \/ \E d \in 1..Len(files) : \E p \in 1..Len(pageStatus[d]) :
          PersonaGetTextContentRejects(d, p)

(***************************************************************************)
(* The page: Index (PDFProcessor.tsx:381-429, 479-516) and PDFUploader     *)
(* (PDFUploader.tsx).  An event handler runs to its end in one step and    *)
(* reads the state of the render it was made in, so a value it sets is not *)
(* what it reads.  An invocation of extractPDFOutline or                   *)
(* analyzeDocumentsForPersona is in flight from its setIsProcessing(true)  *)
(* to its finally block.                                                   *)
(***************************************************************************)
\* maxFiles and minFiles of PDFUploader.tsx:18-19
OutlineMaxFiles == 1

PersonaMaxFiles == 10

PersonaMinFiles == 3

\* personaFiles.length >= 3: the form is on the page (PDFProcessor.tsx:510)
FormMinFiles == 3

Modes == {"outline", "persona"}

Pdf(name) == [name |-> name, type |-> "application/pdf"]

Txt(name) == [name |-> name, type |-> "text/plain"]

\* the file lists the user may pick or drop
FileLists(mode) ==
    IF mode = "outline"
    THEN { <<Pdf("a.pdf")>>, <<Pdf("b.pdf")>>, <<Txt("notes.txt")>>,
           <<Pdf("a.pdf"), Pdf("b.pdf")>> }
    ELSE { <<Pdf("a.pdf"), Pdf("b.pdf")>>,
           <<Pdf("a.pdf"), Pdf("b.pdf"), Pdf("c.pdf")>>,
           <<Pdf("a.pdf"), Pdf("b.pdf"), Txt("notes.txt")>>,
           [i \in 1..(PersonaMaxFiles + 1) |-> Pdf("a.pdf")] }

MaxFilesOf(mode) == IF mode = "outline" THEN OutlineMaxFiles ELSE PersonaMaxFiles

UIIdle ==
    /\ activeTab = "outline"
    /\ outlineFiles = <<>>
    /\ personaFiles = <<>>
    /\ outlineResults = <<>>
    /\ personaResults = <<>>
    /\ selectedFiles = [mode \in Modes |-> <<>>]
    /\ inFlight = <<>>

\* the call of extractPDFOutline or analyzeDocumentsForPersona by a handler:
\* setIsProcessing(true), and the call is in flight
StartInvocation(handler, fileList) ==
    /\ Len(inFlight) < MaxInFlight
    /\ inFlight' = Append(inFlight, [handler |-> handler, files |-> fileList])
    /\ isProcessing' = TRUE

\* handleOutlineExtraction (PDFProcessor.tsx:391-397) up to its await: it
\* reads outlineFiles of the render it was made in.  A list holds at most
\* OutlineMaxFiles = 1 file, so Promise.all awaits one invocation.
HandleOutlineExtraction ==
    IF Len(outlineFiles) = 0
    THEN UNCHANGED <<inFlight, isProcessing>>
    ELSE StartInvocation("outline", outlineFiles)

\* the onFilesSelected the uploader of a mode is given (PDFProcessor.tsx
\* 480-485 and 505)
OnFilesSelected(mode, fileList) ==
    IF mode = "outline"
    THEN /\ outlineFiles' = fileList
         /\ IF Len(fileList) > 0
            THEN HandleOutlineExtraction
            ELSE UNCHANGED <<inFlight, isProcessing>>
         /\ UNCHANGED personaFiles
    ELSE /\ personaFiles' = fileList
         /\ UNCHANGED <<outlineFiles, inFlight, isProcessing>>

\* the checks of handleDrop and handleInputChange pass (PDFUploader.tsx
\* 40-65 and 74-90)
Accepted(mode, fileList, isDrop) ==
    /\ isDrop => Len(fileList) # 0
    /\ Len(fileList) =< MaxFilesOf(mode)
    /\ mode = "persona" => Len(fileList) >= PersonaMinFiles

\* setSelectedFiles(files); onFilesSelected(files), or a toast and return
Select(mode, fileList, isDrop) ==
    IF Accepted(mode, fileList, isDrop)
    THEN /\ selectedFiles' = [selectedFiles EXCEPT ![mode] = fileList]
         /\ OnFilesSelected(mode, fileList)
    ELSE UNCHANGED <<selectedFiles, outlineFiles, personaFiles, inFlight, isProcessing>>

\* onValueChange={setActiveTab}
SetActiveTab(tab) ==
    /\ activeTab # tab
    /\ activeTab' = tab
    /\ UNCHANGED <<isProcessing, outlineFiles, personaFiles, outlineResults,
                   personaResults, selectedFiles, inFlight>>
    /\ UNCHANGED uiFrame

\* handleInputChange (PDFUploader.tsx:71-94); the input is disabled while
\* isProcessing (line 129)
HandleInputChange(mode, fileList) ==
    /\ activeTab = mode
    /\ ~isProcessing
    /\ Select(mode, fileList, FALSE)
    /\ UNCHANGED <<activeTab, outlineResults, personaResults>>
    /\ UNCHANGED uiFrame

\* handleDrop (PDFUploader.tsx:31-69): the drop zone takes drops whatever
\* isProcessing is; files that are no PDF are left out
HandleDrop(mode, dropped) ==
    /\ activeTab = mode
    /\ Select(mode, SelectSeq(dropped, LAMBDA f : f.type = "application/pdf"), TRUE)
    /\ UNCHANGED <<activeTab, outlineResults, personaResults>>
    /\ UNCHANGED uiFrame

\* removeFile (PDFUploader.tsx:96-100); the button is disabled while
\* isProcessing (line 164)
RemoveFile(mode, index) ==
    /\ activeTab = mode
    /\ ~isProcessing
    /\ index \in 1..Len(selectedFiles[mode])
    /\ LET newFiles == SubSeq(selectedFiles[mode], 1, index - 1)
                          \o SubSeq(selectedFiles[mode], index + 1,
                                    Len(selectedFiles[mode]))
       IN  /\ selectedFiles' = [selectedFiles EXCEPT ![mode] = newFiles]
           /\ OnFilesSelected(mode, newFiles)
    /\ UNCHANGED <<activeTab, outlineResults, personaResults>>
    /\ UNCHANGED uiFrame

\* the form's onSubmit: handlePersonaAnalysis (PDFProcessor.tsx:412-416) up
\* to its await.  The form is on the page from FormMinFiles files on; it
\* does not submit while isProcessing.
SubmitPersonaForm ==
    /\ activeTab = "persona"
    /\ Len(personaFiles) >= FormMinFiles
    /\ ~isProcessing
    /\ IF Len(personaFiles) = 0
       THEN UNCHANGED <<inFlight, isProcessing>>
       ELSE StartInvocation("persona", personaFiles)
    /\ UNCHANGED <<activeTab, outlineFiles, personaFiles, outlineResults,
                   personaResults, selectedFiles>>
    /\ UNCHANGED uiFrame

\* the invocation at position i of inFlight ends: its finally block sets
\* isProcessing to false, and the handler that awaits it stores the result
\* (lines 398 and 417) or shows the error (lines 403-408 and 422-427)
InvocationSettles(i, ok) ==
    /\ i \in 1..Len(inFlight)
    /\ isProcessing' = FALSE
    /\ inFlight' = SubSeq(inFlight, 1, i - 1) \o SubSeq(inFlight, i + 1, Len(inFlight))
    /\ IF ok /\ inFlight[i].handler = "outline"
       THEN outlineResults' = inFlight[i].files
       ELSE UNCHANGED outlineResults
    /\ IF ok /\ inFlight[i].handler = "persona"
       THEN personaResults' = inFlight[i].files
       ELSE UNCHANGED personaResults
    /\ UNCHANGED <<activeTab, outlineFiles, personaFiles, selectedFiles>>
    /\ UNCHANGED uiFrame

UINext ==
    \/ \E tab \in Modes : SetActiveTab(tab)
    \/ \E mode \in Modes : \E fileList \in FileLists(mode) :
          HandleInputChange(mode, fileList)
    \/ \E mode \in Modes : \E dropped \in FileLists(mode) : HandleDrop(mode, dropped)
    \/ \E mode \in Modes : \E index \in 1..Len(selectedFiles[mode]) :
          RemoveFile(mode, index)
    \/ SubmitPersonaForm
    \/ \E i \in 1..Len(inFlight) : \E ok \in BOOLEAN : InvocationSettles(i, ok)

(***************************************************************************)
(* Specifications of one invocation                                        *)
(***************************************************************************)
OutlineInit ==
    /\ isProcessing = FALSE
    /\ OutlineIdle
    /\ PersonaIdle
    /\ ScoreIdle
    /\ UIIdle

SpecOutline == OutlineInit /\ [][OutlineNext]_vars

PersonaInit == OutlineInit

SpecPersona == PersonaInit /\ [][PersonaNext]_vars

\* one invocation, of either function
CoreInit == OutlineInit

CoreNext ==
    \/ personaPc = "idle" /\ OutlineNext
    \/ outlinePc = "idle" /\ PersonaNext

SpecCore == CoreInit /\ [][CoreNext]_vars

\* a decoder promise of the invocation that has started settles, by
\* rejection or by fulfilment, and the continuation runs
DecoderSettles ==
    \/ ArrayBufferRejects
    \/ GetDocumentRejects
    \/ GetMetadataRejects
    \/ GetPageRejects
    \/ GetTextContentRejects
    \/ ArrayBufferResolves
    \/ GetDocumentResolves
    \/ GetMetadataResolves
    \/ GetPageResolves
    \/ GetTextContentResolves
    \/ \E d \in 1..Len(files) :
          \/ PersonaArrayBufferRejects(d)
          \/ PersonaGetDocumentRejects(d)
          \/ PersonaArrayBufferResolves(d)
          \/ PersonaGetDocumentResolves(d)
    \/ \E d \in 1..Len(files) : \E p \in 1..Len(pageStatus[d]) :
          \/ PersonaGetPageRejects(d, p)
          \/ PersonaGetTextContentRejects(d, p)
          \/ PersonaGetPageResolves(d, p)
          \/ PersonaGetTextContentResolves(d, p)

\* one invocation whose decoder promises all settle in the end: the event
\* loop runs the continuation of a settled promise
SpecCoreFair == CoreInit /\ [][CoreNext]_vars /\ WF_vars(DecoderSettles)

\* the page, from its first render
UIInit == OutlineInit

SpecUI == UIInit /\ [][UINext]_vars

(***************************************************************************)
(* Properties of extractPDFOutline                                         *)
(***************************************************************************)
OutlineDone == outlinePc = "done"

OutlineReturned == OutlineDone /\ returned # <<>>

\* the outline of the value returned
ReturnedOutline == returned[1].outline

LevelNumber(level) == IF level = "H1" THEN 1 ELSE IF level = "H2" THEN 2 ELSE 3

\* the tests a heading text passes, as the claim states them
PassesHeadingTests(text) ==
    /\ Len(text) > 3
    /\ Len(text) < 100
    /\ \E k \in 1..26 : SubSeq(text, 1, 1) = UpperCase[k]
    /\ \A k \in 1..Len(text) : SubSeq(text, k, k) # "."

\* the strings the decoder can report, trimmed, and whether they pass the tests
\* (tables, so that each string is examined once)
Trimmed == [s \in { item.str : item \in TextItemChoices } |-> Trim(s)]

Passes == [t \in { Trimmed[item.str] : item \in TextItemChoices } |->
              PassesHeadingTests(t)]

\* What the spans of a page are, read off the decoder's answer items:
\*   text[i]   the trimmed string of span i
\*   counted   the spans the grouping counts: not blank, height not 0
\*   size[i]   the rounded height of span i
\*   rank[i]   how many distinct rounded heights of the page exceed size[i]
\*   cand      the heading candidates: in one of the four largest clusters and
\*             passing the tests
\*   first     the candidates discovered first among those with their text
\*             (larger cluster first, then span order)
SpanFacts(items) ==
    LET text    == [i \in 1..Len(items) |-> Trimmed[items[i].str]]
        counted == { i \in 1..Len(items) : Len(text[i]) > 0 /\ items[i].height # 0 }
        size    == [i \in counted |-> (items[i].height + 5) \div 10]
        rank    == [i \in counted |->
                      Cardinality({ size[j] : j \in { k \in counted : size[k] > size[i] } })]
        cand    == { i \in counted : rank[i] < 4 /\ Passes[text[i]] }
        Before(i, j) == size[i] > size[j] \/ (size[i] = size[j] /\ i < j)
        first   == { i \in cand :
                       \A j \in cand : (j # i /\ text[j] = text[i]) => Before(i, j) }
    IN  [text |-> text, height |-> [i \in 1..Len(items) |-> items[i].height],
         size |-> size, rank |-> rank, cand |-> cand, first |-> first]

\* (a table, so that each answer is examined once)
SpanFactsOf == [items \in ItemArrays(MaxSpans) |-> SpanFacts(items)]

\* the spans of page p
SpansOf(p) == SpanFactsOf[pages[p]]

\* the positions in seq of the items with this text on this page
ItemsWith(seq, text, page) ==
    { k \in 1..Len(seq) : seq[k].text = text /\ seq[k].page = page }

\* C6: no two items of a returned outline share (text, page), and the item
\* kept for a (text, page) is the first one discovered: its level is that of
\* the largest font-size cluster of the page that holds the text.
C6_OutlineDeduplicated ==
    OutlineReturned =>
        /\ \A a, b \in 1..Len(ReturnedOutline) :
              (ReturnedOutline[a].text = ReturnedOutline[b].text
                 /\ ReturnedOutline[a].page = ReturnedOutline[b].page) => a = b
        /\ \A p \in 1..Len(pages) :
              LET s == SpansOf(p)
              IN  \A i \in s.first :
                     \E k \in ItemsWith(ReturnedOutline, s.text[i], p) :
                        LevelNumber(ReturnedOutline[k].level) = Min(s.rank[i] + 1, 3)

\* C6 witness: a page held the same text in two clusters and one item was kept
C6_Witness ==
    /\ OutlineReturned
    /\ Len(ReturnedOutline) < Len(outline)
    /\ \E p \in 1..Len(pages) :
          LET s == SpansOf(p)
          IN  \E i, j \in s.cand : s.text[i] = s.text[j] /\ s.size[i] > s.size[j]

\* C7: a returned outline is non-decreasing in page, and items of one page
\* are in discovery order (larger cluster first, then span order).
C7_OutlineSorted ==
    OutlineReturned =>
        /\ \A a, b \in 1..Len(ReturnedOutline) :
              a < b => ReturnedOutline[a].page =< ReturnedOutline[b].page
        /\ \A p \in 1..Len(pages) :
              LET s == SpansOf(p)
              IN  \A i, j \in s.first :
                     (s.size[i] > s.size[j] \/ (s.size[i] = s.size[j] /\ i < j)) =>
                        \E a \in ItemsWith(ReturnedOutline, s.text[i], p) :
                        \E b \in ItemsWith(ReturnedOutline, s.text[j], p) : a < b

\* C7 witness: items on two pages, two of them from one cluster of one page
C7_Witness ==
    /\ OutlineReturned
    /\ \E a, b, c \in 1..Len(ReturnedOutline) :
          /\ a < b /\ b < c
          /\ ReturnedOutline[a].page = ReturnedOutline[b].page
          /\ ReturnedOutline[a].level = ReturnedOutline[b].level
          /\ ReturnedOutline[b].page < ReturnedOutline[c].page

\* C8: of two spans of one page that both became outline items, the one with
\* the greater height has a level that is numerically less than or equal to
\* the other's.
C8_LevelsFollowHeights ==
    OutlineReturned =>
        \A p \in 1..Len(pages) :
            LET s == SpansOf(p)
            IN  \A i, j \in s.first :
                   s.height[i] > s.height[j] =>
                      \E a \in ItemsWith(ReturnedOutline, s.text[i], p) :
                      \E b \in ItemsWith(ReturnedOutline, s.text[j], p) :
                         LevelNumber(ReturnedOutline[a].level)
                            =< LevelNumber(ReturnedOutline[b].level)

\* C8 witness: a page with four distinct rounded heights, each giving an item
C8_Witness ==
    /\ OutlineReturned
    /\ \E p \in 1..Len(pages) :
          LET s == SpansOf(p)
          IN  Cardinality({ s.size[i] : i \in s.first }) > 3

\* C9: every item of a returned outline has a text of length in 4..99 that
\* begins with A-Z and holds no period; a span whose text fails a test is no
\* item; a span that passes and lies in the largest cluster of its page is an
\* H1 item.
C9_HeadingTests ==
    OutlineReturned =>
        /\ \A k \in 1..Len(ReturnedOutline) : PassesHeadingTests(ReturnedOutline[k].text)
        /\ \A p \in 1..Len(pages) :
              LET s == SpansOf(p)
              IN  /\ \A i \in DOMAIN s.text :
                        ~Passes[s.text[i]] =>
                            ItemsWith(ReturnedOutline, s.text[i], p) = {}
                  /\ \A i \in s.cand :
                        s.rank[i] = 0 =>
                            \E k \in ItemsWith(ReturnedOutline, s.text[i], p) :
                                ReturnedOutline[k].level = "H1"

\* C9 witness: "Introduction" at 18 and body text ending in a period at 10
C9_Witness ==
    /\ OutlineReturned
    /\ pages = << << [str |-> " Introduction ", height |-> 180],
                     [str |-> "This is body text.", height |-> 100] >> >>
    /\ ReturnedOutline = << [level |-> "H1", text |-> "Introduction", page |-> 1] >>

(***************************************************************************)
(* Properties of analyzeDocumentsForPersona and of both functions          *)
(***************************************************************************)
PersonaDone == personaPc = "done"

PersonaReturned == PersonaDone /\ personaReturned # <<>>

\* the error is a rejection of getPage or getTextContent
IsPageError(error) == error.page > 0

\* the error is a rejection of file.arrayBuffer() or of getDocument
IsDocumentError(error) == error.message \in {"decoder: arrayBuffer", "decoder: getDocument"}

\* C1 (as claimed): when getPage or getTextContent rejects for one page, the
\* page is skipped and the invocation still returns a result.
C1_PageFailureIsSkipped ==
    /\ (OutlineDone /\ caught # <<>> /\ IsPageError(caught[1]))
          => (returned # <<>> /\ thrown = <<>>)
    /\ (PersonaDone /\ personaCaught # <<>> /\ IsPageError(personaCaught[1]))
          => (personaReturned # <<>> /\ personaThrown = <<>>)

\* C2 (as claimed): when reading or opening one file fails while a sibling
\* document has been analysed, the invocation returns a result instead of
\* throwing.
C2_DocumentFailureIsSkipped ==
    (/\ PersonaDone
     /\ personaCaught # <<>>
     /\ IsDocumentError(personaCaught[1])
     /\ \E d \in 1..Len(files) : docStatus[d] = "fulfilled")
        => (personaReturned # <<>> /\ personaThrown = <<>>)

\* the result of analysing the pages of document d one after the other
SequentialPages(d) ==
    [p \in 1..Len(pageStrs[d]) |-> AnalysedPage(files[d], p, pageStrs[d][p][1])]

\* the result of analysing the documents one after the other
SequentialDocuments == [d \in 1..Len(files) |-> Pushed(SequentialPages(d))]

\* <<d1, p1>> comes after <<d2, p2>> in the order of the input
LaterInInput(a, b) == a[1] > b[1] \/ (a[1] = b[1] /\ a[2] > b[2])

\* the page task a put something into the result
Contributed(a) ==
    \E k \in 1..Len(personaReturned[1].subSectionAnalysis) :
        /\ personaReturned[1].subSectionAnalysis[k].document = files[a[1]]
        /\ personaReturned[1].subSectionAnalysis[k].pageNumber = a[2]

\* C4: the sections and excerpts returned are those of a sequential analysis
\* of the same files with the same decoder outputs, whatever the order in
\* which the page and document tasks completed.
C4_CompletionOrderIrrelevant ==
    PersonaReturned =>
        /\ personaReturned[1].extractedSections
              = Take(SortByRank(Pushed(SequentialDocuments).sections), MaxExtractedSections)
        /\ personaReturned[1].subSectionAnalysis
              = Take(Pushed(SequentialDocuments).subsections, MaxSubSections)

\* a result whose page tasks completed against the order of the input, two
\* of them with entries in the result
C4_Witness ==
    /\ PersonaReturned
    /\ \E i, j \in 1..Len(completionOrder) :
          /\ i < j
          /\ LaterInInput(completionOrder[i], completionOrder[j])
          /\ Contributed(completionOrder[i])
          /\ Contributed(completionOrder[j])

\* the sections of every page in discovery order: document order in the
\* input list, then page number, then section index
Discovered == Pushed(SequentialDocuments).sections

\* the entries of seq with importanceRank rank, in the order of seq
WithRank(seq, rank) == SelectSeq(seq, LAMBDA section : section.importanceRank = rank)

IsPrefix(a, b) == Len(a) =< Len(b) /\ a = SubSeq(b, 1, Len(a))

\* sections is non-increasing in importanceRank, and its entries of each rank
\* are the first ones discovered with that rank, in discovery order
RankedInDiscoveryOrder(sections, discovered) ==
    /\ \A a, b \in 1..Len(sections) :
          a < b => sections[a].importanceRank >= sections[b].importanceRank
    /\ \A k \in 1..Len(sections) :
          IsPrefix(WithRank(sections, sections[k].importanceRank),
                   WithRank(discovered, sections[k].importanceRank))

\* C12: extractedSections of a returned analysis is sorted non-increasing by
\* importanceRank, and sections of equal importanceRank are in discovery
\* order (document, then page, then section index).
C12_SortedByRankStable ==
    PersonaReturned =>
        RankedInDiscoveryOrder(personaReturned[1].extractedSections, Discovered)

\* C12 witness: two sections of one rank from different documents, and a
\* section of a higher rank that was discovered after one of them
C12_Witness ==
    /\ PersonaReturned
    /\ \E a, b \in 1..Len(personaReturned[1].extractedSections) :
          /\ a < b
          /\ personaReturned[1].extractedSections[a].importanceRank
                = personaReturned[1].extractedSections[b].importanceRank
          /\ personaReturned[1].extractedSections[a].document
                # personaReturned[1].extractedSections[b].document
    /\ personaReturned[1].extractedSections # Discovered

\* how many entries of seq have an importanceRank above rank
CountAbove(seq, rank) ==
    Cardinality({ k \in 1..Len(seq) : seq[k].importanceRank > rank })

\* how many entries of seq have the importanceRank rank
CountWithRank(seq, rank) ==
    Cardinality({ k \in 1..Len(seq) : seq[k].importanceRank = rank })

\* kept holds cap of the entries of discovered, or all of them if there are
\* fewer, and no entry left out has a higher importanceRank than one kept
HighestKept(kept, discovered, cap) ==
    /\ Len(kept) = Min(cap, Len(discovered))
    /\ \A k \in 1..Len(discovered) :
          CountWithRank(kept, discovered[k].importanceRank)
             = Max(0, Min(CountWithRank(discovered, discovered[k].importanceRank),
                          cap - CountAbove(discovered, discovered[k].importanceRank)))

\* C13: a returned analysis has at most 15 extractedSections and at most 20
\* subSectionAnalysis entries, and the sections kept are those of the
\* highest importanceRank among all that qualified.
C13_CapsAfterSort ==
    PersonaReturned =>
        /\ Len(personaReturned[1].extractedSections) =< 15
        /\ Len(personaReturned[1].subSectionAnalysis) =< 20
        /\ HighestKept(personaReturned[1].extractedSections, Discovered, 15)
        /\ Len(personaReturned[1].subSectionAnalysis)
              = Min(20, Len(Pushed(SequentialDocuments).subsections))

\* C13 witness: more than 15 sections and more than 20 excerpts qualified,
\* and a section of rank 3 was left out though it was discovered before a
\* section of rank 7 that was kept
C13_Witness ==
    /\ PersonaReturned
    /\ Len(Discovered) > 15
    /\ Len(Pushed(SequentialDocuments).subsections) > 20
    /\ Len(personaReturned[1].extractedSections) = 15
    /\ Len(personaReturned[1].subSectionAnalysis) = 20
    /\ CountWithRank(personaReturned[1].extractedSections, 3)
          < CountWithRank(Discovered, 3)
    /\ Discovered[1].importanceRank = 3

\* the pages of PersonaPageChoices with a section above the section
\* threshold: at least 50 characters of text, and a section of
\* extractMeaningSections with a score above 0.2
QualifyingPages ==
    { strs \in PersonaPageChoices :
         /\ Len(PageText(strs)) >= 50
         /\ \E k \in 1..Len(extractMeaningSections(PageText(strs))) :
               ScoreAbove(calculateEnhancedRelevanceScore(
                              extractMeaningSections(PageText(strs))[k].text,
                              AnalysisPersona, AnalysisJob), 2) }

\* every decoder promise of the invocation has been fulfilled
DecodedWithoutFailure ==
    /\ personaPc # "idle"
    /\ personaCaught = <<>>
    /\ \A d \in 1..Len(files) :
          /\ docStatus[d] \notin {"arrayBuffer", "getDocument"}
          /\ \A p \in 1..Len(pageStatus[d]) : pageStatus[d][p] = "fulfilled"

\* no page of any document has a section that qualifies
NothingQualifies ==
    \A d \in 1..Len(files) : \A p \in 1..Len(pageStrs[d]) :
       pageStrs[d][p] # <<>> => pageStrs[d][p][1] \notin QualifyingPages

\* C14: when every document has been decoded and no section of any page
\* qualifies (pages under 50 characters, documents of zero pages and an empty
\* file list included), the invocation has returned an analysis whose
\* extractedSections and subSectionAnalysis are empty, and has not thrown.
C14_NothingQualifiesReturnsEmpty ==
    (DecodedWithoutFailure /\ NothingQualifies) =>
        /\ personaThrown = <<>>
        /\ Len(personaReturned) = 1
        /\ personaReturned[1].extractedSections = <<>>
        /\ personaReturned[1].subSectionAnalysis = <<>>
        /\ personaReturned[1].metadata.documents = files

\* C14 witness: an analysis was returned for a document of zero pages and a
\* document with a page under 50 characters and a page whose only section
\* scores nothing
C14_Witness ==
    /\ PersonaReturned
    /\ NothingQualifies
    /\ Len(files) = 2
    /\ pageStrs[1] = <<>>
    /\ Len(pageStrs[2]) = 2
    /\ pageStrs[2][1] = << <<"Cover page">> >>
    /\ Len(PageText(pageStrs[2][2][1])) >= 50
    /\ personaReturned[1].extractedSections = <<>>
    /\ personaReturned[1].subSectionAnalysis = <<>>

\* the score of a sentence for the persona and the job of the analysis
SentenceScore(sentence) ==
    calculateEnhancedRelevanceScore(sentence, AnalysisPersona, AnalysisJob)

\* the indices of the sentences longer than minLength that score above the
\* sentence threshold
Candidates(sentences, minLength) ==
    { i \in 1..Len(sentences) :
         /\ Len(Trim(sentences[i])) > minLength
         /\ ScoreAbove(SentenceScore(sentences[i]), SentenceThreshold) }

\* sentence j comes before sentence i: a higher score, or the same score and
\* an earlier place in the section
Beats(sentences, j, i) ==
    \/ ScoreGreater(SentenceScore(sentences[j]), SentenceScore(sentences[i]))
    \/ /\ ~ScoreGreater(SentenceScore(sentences[i]), SentenceScore(sentences[j]))
       /\ j < i

\* how many of the candidates come before sentence i
Place(sentences, candidates, i) ==
    Cardinality({ j \in candidates : Beats(sentences, j, i) })

\* the excerpt of a section, if it has one: the two candidates that come
\* first, period-joined
ExpectedExcerpt(sentences, candidates) ==
    IF candidates = {} THEN <<>>
    ELSE <<Join([n \in 1..Min(2, Cardinality(candidates)) |->
                    Trim(sentences[CHOOSE i \in candidates :
                                      Place(sentences, candidates, i) = n - 1])],
                ". ") \o ".">>

\* the excerpts of a page, section by section, where the sentences longer
\* than minLength are the candidates
ExpectedExcerpts(pageText, minLength) ==
    IF Len(pageText) < 50 THEN <<>>
    ELSE Flatten([k \in 1..Len(extractMeaningSections(pageText)) |->
            IF ScoreAbove(SentenceScore(extractMeaningSections(pageText)[k].text), 2)
            THEN ExpectedExcerpt(
                     SplitSentences(extractMeaningSections(pageText)[k].text),
                     Candidates(SplitSentences(extractMeaningSections(pageText)[k].text),
                                minLength))
            ELSE <<>>])

\* the excerpts of every page of PersonaPageChoices, with the sentences of
\* more than 30 characters as candidates
ExcerptsFromLongSentences ==
    [strs \in PersonaPageChoices |-> ExpectedExcerpts(PageText(strs), 30)]

\* the same with every sentence as a candidate
ExcerptsFromAllSentences ==
    [strs \in PersonaPageChoices |-> ExpectedExcerpts(PageText(strs), 0)]

\* the entries of the excerpts of table, for the pages decoded, in input order
ExpectedEntries(table) ==
    Flatten([d \in 1..Len(files) |->
       Flatten([p \in 1..Len(pageStrs[d]) |->
          [k \in 1..Len(table[pageStrs[d][p][1]]) |->
              [document    |-> files[d],
               refinedText |-> table[pageStrs[d][p][1]][k],
               pageNumber  |-> p]]])])

\* C17 as stated: every subSectionAnalysis entry comes from a section that
\* scores above 0.2, and its refinedText joins the at most 2 sentences of the
\* section that score above 0.3 and score highest, ties in sentence order; a
\* section without such a sentence has no entry.
C17_TopSentencesOfSection ==
    PersonaReturned =>
        personaReturned[1].subSectionAnalysis
           = Take(ExpectedEntries(ExcerptsFromAllSentences), 20)

\* C17 amended: the same, where only the sentences of more than 30
\* characters are candidates.
C17_TopLongSentencesOfSection ==
    PersonaReturned =>
        personaReturned[1].subSectionAnalysis
           = Take(ExpectedEntries(ExcerptsFromLongSentences), 20)

\* C17 witness: an analysis was returned for a page whose section has three
\* sentences of more than 30 characters above the sentence threshold, two of
\* them of equal score, and its excerpt holds the highest-scoring one and
\* then the earlier of the two
C17_Witness ==
    /\ PersonaReturned
    /\ Len(files) = 1
    /\ pageStrs[1] = << <<OverviewPage>> >>
    /\ personaReturned[1].subSectionAnalysis
          = <<[document    |-> files[1],
               refinedText |-> "Revenue trends grew and revenue trends stayed strong in every region. The revenue trends of the group grew and costs fell.",
               pageNumber  |-> 1]>>
    /\ Cardinality(Candidates(SplitSentences(extractMeaningSections(PageText(OverviewPage))[1].text),
                              30)) = 3
    /\ SentenceScore(SplitSentences(extractMeaningSections(PageText(OverviewPage))[1].text)[2])
          = SentenceScore(SplitSentences(extractMeaningSections(PageText(OverviewPage))[1].text)[3])

\* C5: an invocation of either function ends with a result or with an error,
\* never both and never neither; the error carries the fixed message and is
\* not the decoder error that was caught; a result covers every document.
C5_ResultOrDomainError ==
    /\ ~OutlineDone => (returned = <<>> /\ thrown = <<>>)
    /\ OutlineDone =>
          /\ (returned # <<>>) # (thrown # <<>>)
          /\ thrown # <<>> =>
                /\ thrown[1].message
                      = "Failed to process PDF. Please ensure it's a valid PDF file."
                /\ caught # <<>> /\ thrown[1] # caught[1]
          /\ returned # <<>> => (caught = <<>> /\ Len(pages) = Min(numPages, OutlinePageCap))
    /\ ~PersonaDone => (personaReturned = <<>> /\ personaThrown = <<>>)
    /\ PersonaDone =>
          /\ (personaReturned # <<>>) # (personaThrown # <<>>)
          /\ personaThrown # <<>> =>
                /\ personaThrown[1].message = "Failed to analyze documents for persona."
                /\ personaCaught # <<>> /\ personaThrown[1] # personaCaught[1]
          /\ personaReturned # <<>> =>
                /\ personaCaught = <<>>
                /\ personaReturned[1].metadata.documents = files
                /\ \A d \in 1..Len(files) : docStatus[d] = "fulfilled"

\* an invocation has started and has not ended
OutlineRunning == outlinePc \notin {"idle", "done"}

PersonaRunning == personaPc \notin {"idle", "done"}

\* C20: if every decoder promise settles in the end, an invocation that has
\* started ends, with a result or an error, and isProcessing is false
\* whenever no invocation is running, after a result and after any failure.
C20_EndsAndClearsIsProcessing ==
    /\ [](~(OutlineRunning \/ PersonaRunning) => ~isProcessing)
    /\ (OutlineRunning \/ PersonaRunning)
          ~> /\ ~isProcessing
             /\ \/ OutlineDone /\ (returned # <<>> \/ thrown # <<>>)
                \/ PersonaDone /\ (personaReturned # <<>> \/ personaThrown # <<>>)

\* C20 witness: an invocation ended with an error after the work of one
\* document was done and a page of another was being decoded, and
\* isProcessing is false
C20_Witness ==
    /\ PersonaDone
    /\ personaThrown # <<>>
    /\ ~isProcessing
    /\ \E d \in 1..Len(files) : docStatus[d] = "fulfilled"
    /\ \E d \in 1..Len(files) : \E p \in 1..Len(pageStatus[d]) :
          pageStatus[d][p] = "getTextContent"

\* an invocation of each function that ended after a decoder error
C5_Witness ==
    \/ OutlineDone /\ caught # <<>> /\ caught[1].message = "decoder: getTextContent"
    \/ PersonaDone /\ personaCaught # <<>>
          /\ personaCaught[1].message = "decoder: getDocument"

(***************************************************************************)
(* Properties of the page                                                  *)
(***************************************************************************)
\* invocations of extractPDFOutline or analyzeDocumentsForPersona in flight
InvocationsInFlight == Len(inFlight)

\* C3 (as claimed): at most one invocation is in flight in every state of the
\* page.
C3_AtMostOneInvocation == InvocationsInFlight =< 1

\* C18 (as claimed): isProcessing is true in every state in which an
\* invocation has started and not yet ended, also after one of two
\* overlapping invocations has ended.
C18_ProcessingWhileInFlight == InvocationsInFlight > 0 => isProcessing

\* the step is a selection of the non-empty fileList in the uploader of the
\* outline tab, by the file input or by a drop, that passes the uploader's
\* checks
SelectsOutlineFiles(fileList) ==
    /\ Len(fileList) > 0
    /\ Accepted("outline", fileList, TRUE)
    /\ \/ HandleInputChange("outline", fileList)
       \/ \E dropped \in FileLists("outline") :
             /\ fileList = SelectSeq(dropped, LAMBDA f : f.type = "application/pdf")
             /\ HandleDrop("outline", dropped)

\* C19 (as claimed): a selection of a non-empty file list in the outline tab
\* starts an extraction of exactly the files selected.
C19_SelectionExtractsSelectedFiles ==
    [][\A fileList \in FileLists("outline") :
          SelectsOutlineFiles(fileList) =>
             /\ Len(inFlight') = Len(inFlight) + 1
             /\ inFlight'[Len(inFlight')] = [handler |-> "outline", files |-> fileList]]_vars

(***************************************************************************)
(* Calls of calculateEnhancedRelevanceScore                                *)
(***************************************************************************)
ScoreWords == {"revenue", "trends", "analyst", "metadata", "Analysis."}

ScoreTexts ==
    { Join(words, " ") : words \in UNION { [1..n -> ScoreWords] : n \in 0..MaxTextWords } }

Personas == {"", "Investment Analyst", "the revenue analyst"}

Jobs == {"Analyze revenue trends", "revenue data"}

\* one more call of the scorer with the arguments chosen
ScoreCall ==
    /\ Len(scores) < MaxScoreCalls
    /\ scores' = Append(scores,
                        calculateEnhancedRelevanceScore(scoreArgs.text, scoreArgs.persona,
                                                        scoreArgs.jobToBeDone))
    /\ UNCHANGED <<scoreArgs, scoreFrame>>

ScoreInit ==
    /\ isProcessing = FALSE
    /\ OutlineIdle
    /\ PersonaIdle
    /\ UIIdle
    /\ scoreArgs \in [text : ScoreTexts, persona : Personas, jobToBeDone : Jobs]
    /\ scores = <<>>

ScoreNext == ScoreCall

SpecScore == ScoreInit /\ [][ScoreNext]_vars

CallKeywords ==
    extractKeywords(ToLowerCase(scoreArgs.persona))
       \o extractKeywords(ToLowerCase(scoreArgs.jobToBeDone))

\* word occurs in text as a whole word
HasWholeWord(text, word) == MatchCount(text, word) > 0

\* the entries of allKeywords other than keyword that occur in context as
\* whole words
WholeWordOthers(context, keyword, allKeywords) ==
    Cardinality({ k \in 1..Len(allKeywords) :
                    /\ allKeywords[k] # keyword
                    /\ HasWholeWord(context, allKeywords[k]) })

\* the sum of WholeWordOthers over the windows of the matches at indices
RECURSIVE WholeWordOthersAt(_, _, _, _)
WholeWordOthersAt(text, keyword, allKeywords, indices) ==
    IF indices = <<>> THEN 0
    ELSE WholeWordOthers(Context(text, keyword, Head(indices)), keyword, allKeywords)
         + WholeWordOthersAt(text, keyword, allKeywords, Tail(indices))

\* C15: a keyword or a professional term that occurs in the text only inside
\* a longer word adds nothing: a text without a whole-word occurrence of any
\* keyword or professional term scores 0, and the context bonus of a keyword
\* counts the other keywords that stand in the window as whole words.
C15_WholeWordMatchingOnly ==
    scores # <<>> =>
        /\ ( /\ \A k \in 1..Len(CallKeywords) :
                   ~HasWholeWord(ToLowerCase(scoreArgs.text), CallKeywords[k])
             /\ \A k \in 1..Len(professionalTerms) :
                   ~HasWholeWord(ToLowerCase(scoreArgs.text), professionalTerms[k]) )
           => scores[1].num = 0
        /\ \A k \in 1..Len(CallKeywords) :
              calculateContextBonus(ToLowerCase(scoreArgs.text), CallKeywords[k], CallKeywords)
                 = Min(ContextBonusCap,
                       ContextBonusStep
                         * WholeWordOthersAt(ToLowerCase(scoreArgs.text), CallKeywords[k],
                                             CallKeywords,
                                             MatchIndices(ToLowerCase(scoreArgs.text),
                                                          CallKeywords[k])))

\* the distinct keywords of allKeywords other than keyword that context
\* contains
DistinctOthers(context, keyword, allKeywords) ==
    Cardinality({ other \in { allKeywords[k] : k \in 1..Len(allKeywords) } :
                    other # keyword /\ Includes(context, other) })

\* the sum of DistinctOthers over the windows of the matches at indices
RECURSIVE DistinctOthersAt(_, _, _, _)
DistinctOthersAt(text, keyword, allKeywords, indices) ==
    IF indices = <<>> THEN 0
    ELSE DistinctOthers(Context(text, keyword, Head(indices)), keyword, allKeywords)
         + DistinctOthersAt(text, keyword, allKeywords, Tail(indices))

\* C16: the context bonus of a keyword is 0.05 for each occurrence of the
\* keyword and each other distinct keyword of the union found in the window
\* of that occurrence, a keyword listed twice counting once, and is at most
\* 0.3.
C16_ContextBonusPerDistinctKeyword ==
    scores # <<>> =>
        \A k \in 1..Len(CallKeywords) :
           /\ calculateContextBonus(ToLowerCase(scoreArgs.text), CallKeywords[k], CallKeywords)
                 =< ContextBonusCap
           /\ calculateContextBonus(ToLowerCase(scoreArgs.text), CallKeywords[k], CallKeywords)
                 = Min(ContextBonusCap,
                       ContextBonusStep
                         * DistinctOthersAt(ToLowerCase(scoreArgs.text), CallKeywords[k],
                                            CallKeywords,
                                            MatchIndices(ToLowerCase(scoreArgs.text),
                                                         CallKeywords[k])))

(***************************************************************************)
(* Scores of a text that grows by one job keyword at a time                *)
(***************************************************************************)
\* the score of the text as it is
ScoreNow ==
    calculateEnhancedRelevanceScore(scoreArgs.text, scoreArgs.persona,
                                    scoreArgs.jobToBeDone)

\* the text with one more whitespace-separated occurrence of keyword
Appended(text, keyword) == text \o " " \o keyword

\* the words of the texts that grow
AppendWords == {"analyst", "metadata", "revenue"}

AppendTexts ==
    { Join(words, " ") : words \in UNION { [1..n -> AppendWords] : n \in 0..MaxTextWords } }

\* the keywords of the job: extractKeywords(jobToBeDone.toLowerCase())
AppendableKeywords ==
    LET jobKeywords == extractKeywords(ToLowerCase(scoreArgs.jobToBeDone))
    IN  { jobKeywords[k] : k \in 1..Len(jobKeywords) }

\* the scorer is called for the text, a keyword of the job is appended to the
\* text, and the scorer is called again
AppendJobKeyword(keyword) ==
    /\ Max(0, Len(scores) - 1) < MaxAppends
    /\ keyword \in AppendableKeywords
    /\ scoreArgs' = [scoreArgs EXCEPT !.text = Appended(@, keyword)]
    /\ scores' = (IF scores = <<>> THEN <<ScoreNow>> ELSE scores)
                    \o <<calculateEnhancedRelevanceScore(scoreArgs'.text,
                                                         scoreArgs.persona,
                                                         scoreArgs.jobToBeDone)>>
    /\ UNCHANGED scoreFrame

AppendInit ==
    /\ isProcessing = FALSE
    /\ OutlineIdle
    /\ PersonaIdle
    /\ UIIdle
    /\ scoreArgs \in [text : AppendTexts, persona : Personas, jobToBeDone : Jobs]
    /\ scores = <<>>

AppendNext ==
    \E keyword \in {"analyze", "revenue", "trends", "data"} : AppendJobKeyword(keyword)

SpecAppend == AppendInit /\ [][AppendNext]_vars

\* a/b =< c/d for scores
ScoreAtMost(a, b) == a.num * b.den =< b.num * a.den

\* C11: with persona and job unchanged, the score of a text with one more
\* occurrence of a job keyword appended is never below the score of the text.
C11_AppendNeverLowersScore ==
    \A i \in 1..(Len(scores) - 1) : ScoreAtMost(scores[i], scores[i + 1])

\* C11 witness: "trends" was appended to a text that matches the persona
\* keyword "analyst", whose density term went from 0.8/3 to 0.8/4, and
\* neither score is clamped
C11_Witness ==
    /\ scoreArgs = [text |-> "analyst metadata metadata trends",
                    persona |-> "Investment Analyst",
                    jobToBeDone |-> "Analyze revenue trends"]
    /\ Len(scores) = 2
    /\ 0 < scores[1].num
    /\ ~ScoreAtMost(scores[2], scores[1])
    /\ scores[2].num < scores[2].den

====
